---- MODULE Spec2Model ----
(***************************************************************************)
(* PokerLearn: the hand-history parser (parse_files.py), the entities it   *)
(* persists (models.py) and Player.recalculate_stats.                      *)
(*                                                                         *)
(* Text is modelled as a sequence of atoms: an atom is a piece of text that*)
(* the parser never looks inside ("Alice", "raises", "[", " ", "50").  A   *)
(* keyword that contains another keyword is spelled with the atoms that    *)
(* show it: "re-raises" is <<"re-", "raises">>.  Python's `x in line`,     *)
(* startswith, split, rsplit, strip, replace and int are operators on such *)
(* sequences.  An optional value (None in Python) is <<>>, a present value *)
(* v is <<v>>.                                                             *)
(***************************************************************************)
EXTENDS Integers, Sequences, FiniteSets, TLC

\* ------------------------------------------------------------------ bounds
\* Lines read in total, over all files of all batches.
MaxLines == 3
\* Files opened in total, over all batches.
MaxFiles == 2
\* Entity creations the store may refuse (SpecFault only).
MaxRefusals == 1

\* ------------------------------------------------------------ Python text
None == <<>>

Some(v) == <<v>>

SP == " "

\* `p in s` at position i
MatchAt(s, p, i) ==
    /\ i >= 1
    /\ i + Len(p) - 1 <= Len(s)
    /\ SubSeq(s, i, i + Len(p) - 1) = p

\* s.find(p) + 1: the first position where p occurs, 0 when it does not
Find(s, p) ==
    LET hits == {i \in 1..Len(s) : MatchAt(s, p, i)}
    IN  IF hits = {} THEN 0 ELSE CHOOSE i \in hits : \A j \in hits : i <= j

\* s.rfind(p) + 1
RFind(s, p) ==
    LET hits == {i \in 1..Len(s) : MatchAt(s, p, i)}
    IN  IF hits = {} THEN 0 ELSE CHOOSE i \in hits : \A j \in hits : i >= j

\* `p in s`
Contains(s, p) == Find(s, p) # 0

\* s.startswith(p)
StartsWith(s, p) == MatchAt(s, p, 1)

\* s.split(p): the segments between the occurrences of p, left to right
RECURSIVE Split(_, _)
Split(s, p) ==
    LET i == Find(s, p)
    IN  IF i = 0
        THEN <<s>>
        ELSE <<SubSeq(s, 1, i - 1)>> \o Split(SubSeq(s, i + Len(p), Len(s)), p)

\* s.rsplit(p, 1)[0]: the text before the last occurrence of p (p occurs in s)
BeforeLast(s, p) == SubSeq(s, 1, RFind(s, p) - 1)

\* s.strip()
RECURSIVE Strip(_)
Strip(s) ==
    IF s = <<>> THEN s
    ELSE IF Head(s) = SP THEN Strip(Tail(s))
    ELSE IF s[Len(s)] = SP THEN Strip(SubSeq(s, 1, Len(s) - 1))
    ELSE s

\* s.replace(",", "")
DropCommas(s) == SelectSeq(s, LAMBDA a : a # ",")

\* The atoms made of decimal digits only, each with its digits.
Digits ==
    [a \in {"1", "2", "7", "25", "50", "000", "500", "1000"} |->
        CASE a = "1"    -> <<1>>
          [] a = "2"    -> <<2>>
          [] a = "7"    -> <<7>>
          [] a = "25"   -> <<2, 5>>
          [] a = "50"   -> <<5, 0>>
          [] a = "000"  -> <<0, 0, 0>>
          [] a = "500"  -> <<5, 0, 0>>
          [] a = "1000" -> <<1, 0, 0, 0>>]

RECURSIVE DigitsOf(_)
DigitsOf(s) == IF s = <<>> THEN <<>> ELSE Digits[Head(s)] \o DigitsOf(Tail(s))

RECURSIVE Decimal(_)
Decimal(ds) ==
    IF ds = <<>> THEN 0 ELSE 10 * Decimal(SubSeq(ds, 1, Len(ds) - 1)) + ds[Len(ds)]

\* int(s): None stands for the ValueError int raises.  int ignores the white
\* space around the digits.
ParseInt(s) ==
    LET t == Strip(s)
    IN  IF t # <<>> /\ \A i \in 1..Len(t) : t[i] \in DOMAIN Digits
        THEN Some(Decimal(DigitsOf(t)))
        ELSE None

\* --------------------------------------------------- the transcript's lines
\* The lines a file may hold (parse_lines reads them one by one).
L_start    == <<"Game", SP, "#", "7", SP, "starts">>
L_end      == <<"Game", SP, "#", "7", SP, "ends">>
L_blinds   == <<"blinds", SP, "are", SP, "25", SP, "50">>
L_over     == <<"Round", SP, "1", SP, "is", SP, "over">>
L_flop     == <<"**", SP, "Dealing", SP, "Flop", SP, "**", SP, "[", "Ah", SP, "Kd", SP, "2c", "]">>
L_nocard   == <<"**", SP, "Dealing", SP, "Turn", SP, "**">>
L_seatA    == <<"Seat", SP, "1", ":", SP, "Alice", SP, "(", "1", ",", "000", SP, "chips", ")">>
L_seatB    == <<"Seat", SP, "2", ":", SP, "Bob", SP, "(", "500", SP, "chips", ")">>
L_seatBad  == <<"Seat", SP, "x", ":", SP, "Alice", SP, "(", "500", SP, "chips", ")">>
L_calls    == <<"Alice", SP, "calls", SP, "[", "50", SP, "chips", "]">>
L_raises   == <<"Alice", SP, "raises", SP, "[", "50", SP, "chips", "]">>
L_reraises == <<"Alice", SP, "re-", "raises", SP, "[", "50", SP, "chips", "]">>
L_folds    == <<"Alice", SP, "folds">>
L_ante     == <<"Bob", SP, "posted", SP, "ante", SP, "of", SP, "25", SP, "Tournament">>
L_badAmt   == <<"Bob", SP, "raises", SP, "[", "50", "]">>
L_noName   == <<SP, "raises", SP, "[", "50", SP, "chips", "]">>
L_showsA   == <<"Alice", SP, "shows", SP, "[", "Ah", SP, "Kd", "]">>
L_showsB   == <<"Bob", SP, "shows">>
L_leaves   == <<"Player", SP, "Alice", SP, "leaves", SP, "the", SP, "table">>
L_chat     == <<"hello">>
L_nameKw   == <<"Mc", "calls", SP, "folds">>
L_leaveBad == <<"Player", SP, "Bob", "-", "leaves", SP, "the", SP, "table">>

Lines ==
    { L_start, L_end, L_blinds, L_over, L_flop, L_nocard, L_seatA, L_seatB,
      L_seatBad, L_calls, L_raises, L_reraises, L_folds, L_ante, L_badAmt,
      L_noName, L_showsA, L_showsB, L_leaves, L_chat, L_nameKw, L_leaveBad }

\* The files a directory may hold: the name without its .txt extension, and the
\* first line (None: the file is empty).
F_G1      == [name  |-> <<"History-", "2024-01-02", SP, "12", "_", "30", "_", "45">>,
              first |-> Some(<<"Game", SP, "ID", SP, "#", ":", SP, "G1">>)]
F_G2      == [name  |-> <<"History-", "2024-01-02", SP, "12", "_", "30", "_", "45">>,
              first |-> Some(<<"Game", SP, "ID", SP, "#", ":", SP, "G2">>)]
F_empty   == [name  |-> <<"History-", "2024-01-02", SP, "12", "_", "30", "_", "45">>,
              first |-> None]
F_noGame  == [name  |-> <<"History-", "2024-01-02", SP, "12", "_", "30", "_", "45">>,
              first |-> Some(<<"hello">>)]
F_badName == [name  |-> <<"notes">>,
              first |-> Some(<<"Game", SP, "ID", SP, "#", ":", SP, "G1">>)]

Files == { F_G1, F_G2, F_empty, F_noGame, F_badName }

\* ------------------------------------------------------------- extractors
ROUND_NAMES ==
    [n \in 1..5 |->
        CASE n = 1 -> <<"Pre-Flop">>
          [] n = 2 -> <<"Flop">>
          [] n = 3 -> <<"Turn">>
          [] n = 4 -> <<"River">>
          [] n = 5 -> <<"Showdown">>]

\* str(n), for the round numbers a bounded run reaches
Str == [n \in 6..9 |-> CASE n = 6 -> "6" [] n = 7 -> "7" [] n = 8 -> "8" [] n = 9 -> "9"]

\* ROUND_NAMES.get(round_number, f"Round {round_number}")
RoundName(round_number) ==
    IF round_number \in DOMAIN ROUND_NAMES
    THEN ROUND_NAMES[round_number]
    ELSE <<"Round", SP, Str[round_number]>>

extract_amount(text) ==
    IF Contains(text, <<"[">>) /\ Contains(text, <<"]">>)
    THEN ParseInt(DropCommas(Split(Split(text, <<"[">>)[2], <<SP>>)[1]))
    ELSE IF Contains(text, <<"posted", SP, "ante">>)
    THEN LET parts == Split(text, <<"ante", SP, "of">>)
         IN  IF Len(parts) < 2
             THEN None
             ELSE ParseInt(DropCommas(Split(parts[2], <<"Tournament">>)[1]))
    ELSE Some(0)

action_keywords ==
    << <<"re-", "raises">>, <<"posts">>, <<"calls">>, <<"raises">>, <<"folds">>,
       <<"posted", SP, "ante">> >>

\* (None, None) and an empty name are both <<>>: the caller tests `not player_name`.
extract_player_name_and_action(line, keywords) ==
    LET hits == {i \in 1..Len(keywords) : Contains(line, keywords[i])}
    IN  IF hits = {}
        THEN [player_name |-> None, action |-> None]
        ELSE LET i == CHOOSE k \in hits : \A j \in hits : k <= j
             IN  [player_name |-> Strip(BeforeLast(line, keywords[i])),
                  action      |-> keywords[i]]

\* The fields process_seat_line reads from a Seat line; ok is FALSE where the
\* code raises (IndexError, ValueError).
SeatFields(line) ==
    LET parts       == Split(line, <<":", SP>>)
        seat_info   == Split(parts[1], <<SP>>)
        seat        == IF Len(seat_info) >= 2 THEN ParseInt(seat_info[2]) ELSE None
        player_info == IF Len(parts) >= 2 THEN Split(parts[2], <<SP, "(">>) ELSE <<>>
        chips       == IF Len(player_info) >= 2
                       THEN ParseInt(DropCommas(Split(player_info[2], <<SP>>)[1]))
                       ELSE None
    IN  IF seat # None /\ chips # None
        THEN [ok |-> TRUE, seat |-> seat[1], player |-> Strip(player_info[1]),
              chips |-> chips[1]]
        ELSE [ok |-> FALSE, seat |-> 0, player |-> <<>>, chips |-> 0]

\* ------------------------------------------------------------------ state
VARIABLES
    store,          \* the database: the committed rows of every table, ids 1, 2, ...
    session,        \* the open Session's view: the committed rows, the rows added
                    \* and the attributes changed since the last commit
    pc,             \* "idle", "files" (parse_files between two files), "lines"
    files,          \* directory entries the loop of parse_files has not taken yet
    game_number,    \* parse_files: the game number of the open file
    game_id,        \* parse_files: game.id
    line,           \* parse_lines: the line just read
    hand,           \* parse_lines: hand (its id, 0 for None)
    round_entry,    \* parse_lines: round_entry (its id, 0 for None)
    game_started,   \* parse_lines
    hand_started,   \* parse_lines
    round_number,   \* parse_lines
    outcome,        \* what the last line came to: "ignored", "ok", "skipped" (the
                    \* handler logged an error), "error" (parse_lines logged it
                    \* and rolled back)
    lines_read,     \* lines read so far, over all files
    files_opened,   \* files taken so far, over all batches
    refusals,       \* entity creations the store may still refuse
    window,         \* the Hand created by the last hand-start marker, 0 once a
                    \* hand-start marker, a hand-end marker or the end of the file
                    \* has followed it
    markers         \* per Hand: the round-over markers read in its window

vars ==
    << store, session, pc, files, game_number, game_id, line, hand, round_entry,
       game_started, hand_started, round_number, outcome, lines_read,
       files_opened, refusals, window, markers >>

EmptyTables ==
    [games |-> <<>>, hands |-> <<>>, rounds |-> <<>>, players |-> <<>>,
     player_actions |-> <<>>, board_cards |-> <<>>]

\* Player(name=..., game_id=..., seat_number=..., chips_start=...) once inserted:
\* the columns with default=0 hold 0, final_chip_count holds NULL.
\* big_blinds_remaining is kept in hundredths of a big blind.
NewPlayer(name, gid, seat_number, chips_start) ==
    [name |-> name, game_id |-> gid, seat_number |-> seat_number,
     chips_start |-> chips_start, total_chips_won |-> 0, total_chips_lost |-> 0,
     final_chip_count |-> None, total_hands_played |-> 0, vpip_count |-> 0,
     pfr_count |-> 0, uopfr_count |-> 0, big_blinds_remaining_x100 |-> 0]

\* PlayerAction(round_id=..., player_id=..., action=..., amount=...)
NewPlayerAction(round_id, player_id, action, amount) ==
    [round_id |-> round_id, player_id |-> player_id, action |-> action,
     amount |-> amount, position |-> None]

\* The query finding only the Players that a Seat line created.
PlayerByName_seated(tables, name) ==
    LET ids == {i \in 1..Len(tables.players) :
                  tables.players[i].name = name /\ tables.players[i].seat_number # -1}
    IN  IF ids = {} THEN 0 ELSE CHOOSE i \in ids : \A j \in ids : i <= j

\* db.query(Player).filter_by(name=name).first(): the player's id, 0 for None
PlayerByName(tables, name) ==
    LET ids == {i \in 1..Len(tables.players) : tables.players[i].name = name}
    IN  IF ids = {} THEN 0 ELSE CHOOSE i \in ids : \A j \in ids : i <= j

\* The query never finding the Game.
GameByNumber_notFound(tables, number) == 0

\* db.query(Game).filter_by(game_number=number).first()
GameByNumber(tables, number) ==
    LET ids == {i \in 1..Len(tables.games) : tables.games[i].game_number = number}
    IN  IF ids = {} THEN 0 ELSE CHOOSE i \in ids : \A j \in ids : i <= j

\* The parser's state as one value m:
\*   c, s           store and session
\*   hand, round_entry, hand_started, round_number   the locals of parse_lines
\*   refusals, outcome
\* db.commit(): everything added or changed in the session becomes durable
Commit(m) == [m EXCEPT !.c = m.s]

\* db.rollback(): everything added or changed since the last commit is dropped
Rollback(m) == [m EXCEPT !.s = m.c]

\* the except clause of parse_lines: logger.error, db.rollback()
Raised(m) == [Rollback(m) EXCEPT !.outcome = "error"]

\* the except clause of a handler: logger.error only
Skipped(m) == [m EXCEPT !.outcome = "skipped"]

Handled(m) == [m EXCEPT !.outcome = "ok"]

\* The store refuses the creation: the commit raises, and a commit that fails
\* leaves the session rolled back.
Refused(m) == [Rollback(m) EXCEPT !.refusals = @ - 1]

\* --------------------------------------------------------------- handlers
\* process_game_start_line, the store accepting the Hand: the new Hand is
\* committed with everything pending; its id is the last of the table.
process_game_start_line(m, text, gid) ==
    LET hand_number == Strip(Split(Split(text, <<"#">>)[2], <<"starts">>)[1])
    IN  Commit([m EXCEPT !.s.hands =
                    Append(@, [game_id |-> gid, hand_number |-> hand_number])])

\* The two arguments taken in the other order.
create_new_round_swapped(m, hand_id, number) ==
    Commit([m EXCEPT !.s.rounds =
                Append(@, [hand_id |-> number, round_number |-> hand_id,
                           round_name |-> RoundName(hand_id)])])

\* create_new_round, the store accepting the Round
create_new_round(m, hand_id, number) ==
    Commit([m EXCEPT !.s.rounds =
                Append(@, [hand_id |-> hand_id, round_number |-> number,
                           round_name |-> RoundName(number)])])

\* The actions that count for VPIP (line 136), for PFR (line 140) and for
\* UOPFR (line 143).
IsVpip_noReraise(action) == action \in { <<"calls">>, <<"raises">> }

IsVpip(action) == action \in { <<"re-", "raises">>, <<"calls">>, <<"raises">> }

IsPfr(action) == action \in { <<"re-", "raises">>, <<"raises">> }

IsUopfr(action) == action = <<"raises">>

\* The counters updated without the test of the round's name.
UpdateStatistics_anyRound(player, action, round_name) ==
    IF IsVpip(action)
    THEN [player EXCEPT
            !.vpip_count  = @ + 1,
            !.pfr_count   = @ + (IF IsPfr(action) THEN 1 ELSE 0),
            !.uopfr_count = @ + (IF IsUopfr(action) THEN 1 ELSE 0)]
    ELSE player

\* Update player statistics (lines 135-144)
UpdateStatistics(player, action, round_name) ==
    IF IsVpip(action)
    THEN [player EXCEPT
            !.vpip_count  = @ + 1,
            !.pfr_count   = IF round_name = <<"Pre-Flop">>
                            THEN @ + (IF IsPfr(action) THEN 1 ELSE 0) ELSE @,
            !.uopfr_count = IF round_name = <<"Pre-Flop">>
                            THEN @ + (IF IsUopfr(action) THEN 1 ELSE 0) ELSE @]
    ELSE player

\* Player(...); db.add; db.commit; db.refresh (lines 112-117 and 187-192)
CreatePlayer(m, name, seat_number, chips_start) ==
    Commit([m EXCEPT !.s.players =
                Append(@, NewPlayer(name, m.s.hands[m.hand].game_id,
                                    seat_number, chips_start))])

\* The new PlayerAction put before the others.
AddPlayerAction_first(m, player_id, action, amount) ==
    [m EXCEPT !.s.player_actions =
        << NewPlayerAction(m.round_entry, player_id, action, amount) >> \o @]

\* PlayerAction(...); db.add
AddPlayerAction(m, player_id, action, amount) ==
    [m EXCEPT !.s.player_actions =
        Append(@, NewPlayerAction(m.round_entry, player_id, action, amount))]

process_player_action_line(m, text) ==
    LET na     == extract_player_name_and_action(text, action_keywords)
        amount == extract_amount(text)
        found  == PlayerByName(m.s, na.player_name)
    IN  IF na.player_name = <<>> \/ na.action = <<>>
        THEN Skipped(m)                      \* ValueError("No valid action ...")
        ELSE IF found = 0 /\ m.hand = 0
        THEN Skipped(m)                      \* hand.game_id of None
        ELSE LET m1  == IF found = 0
                        THEN CreatePlayer(m, na.player_name, -1, 0) ELSE m
                 pid == IF found = 0 THEN Len(m1.s.players) ELSE found
             IN  IF m1.round_entry = 0
                 THEN Skipped(m1)            \* round_entry.id of None
                 ELSE LET m2 == AddPlayerAction(m1, pid, na.action, amount)
                      IN  IF m2.hand = 0
                          THEN Skipped(m2)   \* hand.hand_number of None, in the log call
                          ELSE Handled([m2 EXCEPT !.s.players[pid] =
                                   UpdateStatistics(@, na.action,
                                       m2.s.rounds[m2.round_entry].round_name)])

\* The Player created when the name is unknown, as an action line does.
process_show_action_line_creating(m, text) ==
    LET player_name == Strip(Split(text, <<"shows">>)[1])
        found       == PlayerByName(m.s, player_name)
        m1          == IF found = 0 /\ m.hand # 0
                       THEN CreatePlayer(m, player_name, -1, 0) ELSE m
        pid         == PlayerByName(m1.s, player_name)
    IN  IF pid = 0 \/ m1.round_entry = 0 \/ m1.hand = 0
        THEN Skipped(m1)
        ELSE Handled(AddPlayerAction(m1, pid, <<"shows">>, Some(0)))

process_show_action_line(m, text) ==
    LET player_name == Strip(Split(text, <<"shows">>)[1])
        found       == PlayerByName(m.s, player_name)
    IN  IF found = 0
        THEN Skipped(m)                      \* "Player record not found"
        ELSE IF m.round_entry = 0
        THEN Skipped(m)
        ELSE LET m1 == AddPlayerAction(m, found, <<"shows">>, Some(0))
             IN  IF m1.hand = 0 THEN Skipped(m1) ELSE Handled(m1)

\* The Player created as an action line creates it: seat -1 and no chips.
process_seat_line_unseated(m, text) ==
    LET f     == SeatFields(text)
        found == PlayerByName(m.s, f.player)
    IN  IF ~f.ok \/ (found = 0 /\ m.hand = 0)
        THEN Skipped(m)
        ELSE LET m1  == IF found = 0 THEN CreatePlayer(m, f.player, -1, 0) ELSE m
                 pid == IF found = 0 THEN Len(m1.s.players) ELSE found
             IN  IF m1.round_entry = 0 \/ m1.hand = 0
                 THEN Skipped(m1)
                 ELSE Handled(AddPlayerAction(m1, pid, <<"seat">>, Some(f.chips)))

\* The Seat line bringing the seat and the chips of a Player it finds up to date.
process_seat_line_updating(m, text) ==
    LET f     == SeatFields(text)
        found == PlayerByName(m.s, f.player)
    IN  IF ~f.ok \/ (found = 0 /\ m.hand = 0)
        THEN Skipped(m)
        ELSE LET m1  == IF found = 0
                        THEN CreatePlayer(m, f.player, f.seat, f.chips)
                        ELSE [m EXCEPT !.s.players[found].seat_number = f.seat,
                                       !.s.players[found].chips_start = f.chips]
                 pid == IF found = 0 THEN Len(m1.s.players) ELSE found
             IN  IF m1.round_entry = 0 \/ m1.hand = 0
                 THEN Skipped(m1)
                 ELSE Handled(AddPlayerAction(m1, pid, <<"seat">>, Some(f.chips)))

process_seat_line(m, text) ==
    LET f     == SeatFields(text)
        found == PlayerByName(m.s, f.player)
    IN  IF ~f.ok
        THEN Skipped(m)
        ELSE IF found = 0 /\ m.hand = 0
        THEN Skipped(m)
        ELSE LET m1  == IF found = 0
                        THEN CreatePlayer(m, f.player, f.seat, f.chips) ELSE m
                 pid == IF found = 0 THEN Len(m1.s.players) ELSE found
             IN  IF m1.round_entry = 0
                 THEN Skipped(m1)
                 ELSE LET m2 == AddPlayerAction(m1, pid, <<"seat">>, Some(f.chips))
                      IN  IF m2.hand = 0 THEN Skipped(m2) ELSE Handled(m2)

\* The card code process_dealing_line stores: the text between "[" and "]"
DealtCard(text) == Split(Split(text, <<"[">>)[2], <<"]">>)[1]

\* process_dealing_line has no try of its own: what it raises reaches parse_lines
process_dealing_line(m, text) ==
    IF ~Contains(text, <<"[">>)
    THEN Raised(m)                           \* IndexError
    ELSE IF m.round_entry = 0
    THEN Raised(m)
    ELSE LET m1 == [m EXCEPT !.s.board_cards =
                        Append(@, [round_id |-> m.round_entry,
                                   card     |-> DealtCard(text)])]
         IN  IF m1.hand = 0 THEN Raised(m1) ELSE Handled(m1)

\* process_player_leaves_line: parts.index("leaves") raises ValueError when no
\* word of the line is "leaves"; the player is looked up and only logged.
process_player_leaves_line(m, text) ==
    LET parts == Split(text, <<SP>>)
    IN  IF \E i \in 1..Len(parts) : parts[i] = <<"leaves">>
        THEN Handled(m)
        ELSE Raised(m)

\* ------------------------------------------------------------ parse_lines
\* line.startswith("Game #") and "starts" in line
IsStartMarker(text) ==
    StartsWith(text, <<"Game", SP, "#">>) /\ Contains(text, <<"starts">>)

\* The branch of the if/elif chain of parse_lines (lines 251-301) that takes the
\* line, hand_started being hs; "none" when no branch does.
Branch(text, hs) ==
    IF IsStartMarker(text) THEN "start"
    ELSE IF Contains(text, <<"blinds", SP, "are">>) THEN "blinds"
    ELSE IF StartsWith(text, <<"Game", SP, "#">>) /\ Contains(text, <<"ends">>)
    THEN "end"
    ELSE IF hs /\ StartsWith(text, <<"Round">>) /\ Contains(text, <<"is", SP, "over">>)
    THEN "round_over"
    ELSE IF hs /\ Contains(text, <<"**", SP, "Dealing">>) THEN "dealing"
    ELSE IF hs /\ StartsWith(text, <<"Seat">>) THEN "seat"
    ELSE IF hs /\ \E i \in 1..Len(action_keywords) : Contains(text, action_keywords[i])
    THEN "action"
    ELSE IF hs /\ Contains(text, <<"shows">>) THEN "shows"
    ELSE IF /\ StartsWith(text, <<"Player">>)
            /\ Contains(text, <<"leaves", SP, "the", SP, "table">>)
    THEN "leaves"
    ELSE "none"

\* lines 251-258.  refuse = 1: the store refuses the Hand; 2: the Round.
GameStartBranch(m, text, gid, refuse) ==
    LET m1 == IF m.hand # 0 THEN Commit(m) ELSE m
    IN  IF refuse = 1
        THEN Raised(Refused(m1))
        ELSE LET m2 == process_game_start_line(m1, text, gid)
                 m3 == [m2 EXCEPT !.hand = Len(m2.s.hands)]
             IN  IF refuse = 2
                 THEN Raised(Refused(m3))
                 ELSE LET m4 == create_new_round(m3, m3.hand, m3.round_number)
                      IN  Handled([m4 EXCEPT !.round_entry = Len(m4.s.rounds)])

\* lines 259-267.  extract_blinds' two numbers are set on the Hand object as
\* attributes that are no columns of Hand: nothing of them is stored.
BlindsBranch(m) == Handled(IF m.hand # 0 THEN Commit(m) ELSE m)

\* The hand committed and not cleared.
GameEndBranch_keepsHand(m) == IF m.hand = 0 THEN Raised(Commit(m)) ELSE Handled(Commit(m))

\* lines 268-275: the log call reads hand.hand_number after the commit
GameEndBranch(m) ==
    LET m1 == Commit(m)
    IN  IF m1.hand = 0
        THEN Raised(m1)
        ELSE Handled([m1 EXCEPT !.hand = 0, !.hand_started = FALSE,
                                !.round_number = 1])

\* The counter advanced and the Round not created.
RoundOverBranch_noRound(m, refuse) ==
    IF m.hand = 0 THEN Raised(m) ELSE Handled([m EXCEPT !.round_number = @ + 1])

\* lines 276-281.  refuse = 1: the store refuses the Round.
RoundOverBranch(m, refuse) ==
    LET m1 == [m EXCEPT !.round_number = @ + 1]
    IN  IF m1.hand = 0
        THEN Raised(m1)                      \* hand.id of None
        ELSE IF refuse = 1
        THEN Raised(Refused(m1))
        ELSE LET m2 == create_new_round(m1, m1.hand, m1.round_number)
             IN  Handled([m2 EXCEPT !.round_entry = Len(m2.s.rounds)])

\* Branch and IsStartMarker of every line of the model, computed once.
BranchOf == [text \in Lines |-> [hs \in BOOLEAN |-> Branch(text, hs)]]

StartMarkers == {text \in Lines : IsStartMarker(text)}

\* The window of a Hand (see the variable) after the line `text` was read.
WindowAfter(text, created, new_hand) ==
    IF text \in StartMarkers THEN (IF created THEN new_hand ELSE 0)
    ELSE IF BranchOf[text][TRUE] = "end" THEN 0
    ELSE window

MarkersAfter(text, created) ==
    IF text \in StartMarkers THEN (IF created THEN Append(markers, 0) ELSE markers)
    ELSE IF BranchOf[text][TRUE] = "round_over" /\ window # 0
    THEN [markers EXCEPT ![window] = @ + 1]
    ELSE markers

\* The parser's state when the line `text` reaches the chain: line 245 has set
\* hand_started on a hand-start marker.
Machine(text) ==
    [c |-> store, s |-> session, hand |-> hand, round_entry |-> round_entry,
     hand_started |-> hand_started \/ text \in StartMarkers,
     round_number |-> round_number, refusals |-> refusals, outcome |-> outcome]

\* One iteration of the loop of parse_lines (lines 242-304): the line `text`
\* is one the chain gives to branch `kind` ("ignored": no game has started,
\* line 247), and `after` is the parser's state once the branch has run.
ReadLine(kind, text, after) ==
    /\ pc = "lines"
    /\ lines_read < MaxLines
    /\ kind = (IF game_started \/ text \in StartMarkers
               THEN BranchOf[text][hand_started \/ text \in StartMarkers]
               ELSE "ignored")
    /\ \E m \in {after} :
         /\ store' = m.c
         /\ session' = m.s
         /\ hand' = m.hand
         /\ round_entry' = m.round_entry
         /\ hand_started' = m.hand_started
         /\ round_number' = m.round_number
         /\ refusals' = m.refusals
         /\ outcome' = m.outcome
         /\ window' = WindowAfter(text, Len(m.c.hands) > Len(store.hands),
                                  Len(m.c.hands))
         /\ markers' = MarkersAfter(text, Len(m.c.hands) > Len(store.hands))
    /\ game_started' = (game_started \/ text \in StartMarkers)
    /\ line' = text
    /\ lines_read' = lines_read + 1
    /\ UNCHANGED << pc, files, game_number, game_id, files_opened >>

\* The creation the store refuses while the line is handled: none (0), the
\* first or the second.
Refusable == 0..(IF refusals > 0 THEN 2 ELSE 0)

\* `continue` (line 248)
IgnoredLine ==
    \E text \in Lines :
        ReadLine("ignored", text, [Machine(text) EXCEPT !.outcome = "ignored"])

GameStartLine ==
    \E text \in Lines, refuse \in Refusable :
        ReadLine("start", text, GameStartBranch(Machine(text), text, game_id, refuse))

BlindsLine ==
    \E text \in Lines : ReadLine("blinds", text, BlindsBranch(Machine(text)))

GameEndLine ==
    \E text \in Lines : ReadLine("end", text, GameEndBranch(Machine(text)))

RoundOverLine ==
    \E text \in Lines, refuse \in Refusable :
        ReadLine("round_over", text, RoundOverBranch(Machine(text), refuse))

DealingLine ==
    \E text \in Lines :
        ReadLine("dealing", text, process_dealing_line(Machine(text), text))

SeatLine ==
    \E text \in Lines : ReadLine("seat", text, process_seat_line(Machine(text), text))

PlayerActionLine ==
    \E text \in Lines :
        ReadLine("action", text, process_player_action_line(Machine(text), text))

ShowLine ==
    \E text \in Lines :
        ReadLine("shows", text, process_show_action_line(Machine(text), text))

PlayerLeavesLine ==
    \E text \in Lines :
        ReadLine("leaves", text, process_player_leaves_line(Machine(text), text))

\* no branch of the chain takes the line
UnmatchedLine ==
    \E text \in Lines :
        ReadLine("none", text, [Machine(text) EXCEPT !.outcome = "ignored"])

\* ------------------------------------------------------------ parse_files
\* s.replace("_", ":")
UnderscoresToColons(s) == [i \in 1..Len(s) |-> IF s[i] = "_" THEN ":" ELSE s[i]]

\* datetime.strptime(date_str, "%Y-%m-%d") and strptime(time_str, "%H:%M:%S")
\* succeed on these texts, and raise ValueError on the others of this model.
IsDate(date_str) == date_str \in { <<"2024-01-02">> }

IsTime(time_str) == time_str \in { <<"12", ":", "30", ":", "45">> }

\* Lines 316-326: what parse_files reads from a file before it opens a session;
\* ok is FALSE where the code raises (IndexError, ValueError).
FileHeader(f) ==
    LET parts          == IF f.first = None THEN <<>>
                          ELSE Split(f.first[1], <<"#", ":", SP>>)
        filename_parts == Split(f.name, <<SP>>)
        n              == Len(filename_parts)
        date_parts     == Split(filename_parts[n - 1], <<"History-">>)
        date_str       == date_parts[Len(date_parts)]
        time_str       == UnderscoresToColons(filename_parts[n])
    IN  IF Len(parts) >= 2 /\ n >= 2 /\ IsDate(date_str) /\ IsTime(time_str)
        THEN [ok |-> TRUE, game_number |-> Strip(parts[2]),
              date |-> date_str, time |-> time_str]
        ELSE [ok |-> FALSE, game_number |-> <<>>, date |-> <<>>, time |-> <<>>]

\* Game.update_num_players: the players with an action in a hand of the game
NumPlayers(tables, gid) ==
    Cardinality({ tables.player_actions[a].player_id :
        a \in { a \in 1..Len(tables.player_actions) :
                  tables.hands[tables.rounds[
                      tables.player_actions[a].round_id].hand_id].game_id = gid } })

\* parse_files is called: os.listdir gives the directory's .txt files
ParseFiles ==
    /\ pc = "idle"
    /\ \E n \in 0..(MaxFiles - files_opened) : files' = n
    /\ pc' = "files"
    /\ UNCHANGED << store, session, game_number, game_id, line, hand, round_entry,
                    game_started, hand_started, round_number, outcome, lines_read,
                    files_opened, refusals, window, markers >>

\* The for loop takes the next file (lines 313-347, up to the call of
\* parse_lines).  What lines 316-326 raise leaves the loop: the try of
\* parse_files encloses it.
OpenFile ==
    /\ pc = "files"
    /\ files > 0
    /\ files' = files - 1
    /\ files_opened' = files_opened + 1
    /\ \E f \in Files :
        LET h     == FileHeader(f)
            found == GameByNumber(store, h.game_number)
            games == IF found # 0 THEN store.games
                     ELSE Append(store.games,
                                 [game_number |-> h.game_number, date |-> h.date,
                                  time |-> h.time, num_players |-> None])
        IN  IF h.ok
            THEN /\ pc' = "lines"
                 /\ store' = [store EXCEPT !.games = games]
                 /\ session' = store'
                 /\ game_number' = h.game_number
                 /\ game_id' = IF found # 0 THEN found ELSE Len(games)
            ELSE /\ pc' = "idle"
                 /\ UNCHANGED << store, session, game_number, game_id >>
    /\ line' = <<>>
    /\ hand' = 0
    /\ round_entry' = 0
    /\ game_started' = FALSE
    /\ hand_started' = FALSE
    /\ round_number' = 1
    /\ UNCHANGED << outcome, lines_read, refusals, window, markers >>

\* The session closed with what is pending in it not committed.
EndOfFile_noCommit ==
    /\ pc = "lines"
    /\ store' = [store EXCEPT !.games[game_id].num_players =
                                  Some(NumPlayers(store, game_id))]
    /\ session' = store'
    /\ pc' = "files"
    /\ window' = 0
    /\ UNCHANGED << files, game_number, game_id, line, hand, round_entry,
                    game_started, hand_started, round_number, outcome, lines_read,
                    files_opened, refusals, markers >>

\* The lines are exhausted: lines 305-307, then update_num_players and db.close()
EndOfFile ==
    /\ pc = "lines"
    /\ LET tables == IF hand # 0 THEN session ELSE store
           count  == NumPlayers(tables, game_id)
       IN  store' = [session EXCEPT !.games[game_id].num_players = Some(count)]
    /\ session' = store'
    /\ pc' = "files"
    /\ window' = 0
    /\ UNCHANGED << files, game_number, game_id, line, hand, round_entry,
                    game_started, hand_started, round_number, outcome, lines_read,
                    files_opened, refusals, markers >>

\* The loop of parse_files is through
EndOfDirectory ==
    /\ pc = "files"
    /\ files = 0
    /\ pc' = "idle"
    /\ UNCHANGED << store, session, files, game_number, game_id, line, hand,
                    round_entry, game_started, hand_started, round_number, outcome,
                    lines_read, files_opened, refusals, window, markers >>

\* ------------------------------------------------- Player.recalculate_stats
\* self.actions, and the query filtered by PlayerAction.player_id == self.id:
\* the ids of the player's actions
PlayerActionsOf(tables, id) ==
    { a \in 1..Len(tables.player_actions) :
        tables.player_actions[a].player_id = id }

\* ... of the given kinds
ActionsOf(tables, id, kinds) ==
    { a \in PlayerActionsOf(tables, id) : tables.player_actions[a].action \in kinds }

\* sum(action.amount for action in self.actions if action.action == kind)
RECURSIVE SumAmounts(_, _)
SumAmounts(tables, as) ==
    IF as = {} THEN 0
    ELSE LET a == CHOOSE a \in as : TRUE
         IN  tables.player_actions[a].amount[1] + SumAmounts(tables, as \ {a})

\* The counts added to the stored counters instead of replacing them.
recalculate_stats_accumulating(tables, id) ==
    LET self == tables.players[id]
    IN  [tables EXCEPT !.players[id] =
            [self EXCEPT
                !.total_hands_played = @ + Cardinality(PlayerActionsOf(tables, id)),
                !.vpip_count         = @ + Cardinality(ActionsOf(tables, id,
                                           { <<"calls">>, <<"raises">>,
                                             <<"re-", "raises">> })),
                !.pfr_count          = Cardinality(ActionsOf(tables, id,
                                           { <<"raises">> })),
                !.uopfr_count        = 0,
                !.final_chip_count   = Some(self.chips_start)]]

\* The body of recalculate_stats on the player `id`, up to its commit.
recalculate_stats(tables, id) ==
    LET self   == tables.players[id]
        won    == SumAmounts(tables, ActionsOf(tables, id, { <<"wins">> }))
        lost   == SumAmounts(tables, ActionsOf(tables, id, { <<"loses">> }))
        raises == ActionsOf(tables, id, { <<"raises">> })
        final  == self.chips_start + won - lost
    IN  [tables EXCEPT !.players[id] =
            [self EXCEPT
                !.total_chips_won    = won,
                !.total_chips_lost   = lost,
                !.total_hands_played = Cardinality(PlayerActionsOf(tables, id)),
                !.vpip_count         = Cardinality(ActionsOf(tables, id,
                                           { <<"calls">>, <<"raises">>,
                                             <<"re-", "raises">> })),
                !.pfr_count          = Cardinality(raises),
                !.uopfr_count        = Cardinality({ a \in raises :
                                           tables.player_actions[a].position
                                               = Some(<<"UTG">>) }),
                !.final_chip_count   = Some(final),
                !.big_blinds_remaining_x100 =
                    IF final # 0 THEN final ELSE @]]

\* GET /player/{player_id}/recalculate_stats, between two batches, for a
\* player the query finds.
Recalculate ==
    /\ pc = "idle"
    /\ \E id \in 1..Len(store.players) :
         /\ store' = recalculate_stats(store, id)
         /\ session' = store'
    /\ UNCHANGED << pc, files, game_number, game_id, line, hand, round_entry,
                    game_started, hand_started, round_number, outcome,
                    lines_read, files_opened, refusals, window, markers >>

\* ---------------------------------------------------------- specifications
InitCommon ==
    /\ store = EmptyTables
    /\ session = EmptyTables
    /\ pc = "idle"
    /\ files = 0
    /\ game_number = <<>>
    /\ game_id = 0
    /\ line = <<>>
    /\ hand = 0
    /\ round_entry = 0
    /\ game_started = FALSE
    /\ hand_started = FALSE
    /\ round_number = 1
    /\ outcome = "ok"
    /\ lines_read = 0
    /\ files_opened = 0
    /\ window = 0
    /\ markers = <<>>

\* The store accepts every creation.
Init == InitCommon /\ refusals = 0

\* The store may refuse to create a Hand or a Round.
InitFault == InitCommon /\ refusals = MaxRefusals

Next ==
    \/ ParseFiles
    \/ OpenFile
    \/ EndOfFile
    \/ EndOfDirectory
    \/ IgnoredLine
    \/ GameStartLine
    \/ BlindsLine
    \/ GameEndLine
    \/ RoundOverLine
    \/ DealingLine
    \/ SeatLine
    \/ PlayerActionLine
    \/ ShowLine
    \/ PlayerLeavesLine
    \/ UnmatchedLine

Spec == Init /\ [][Next]_vars

SpecFault == InitFault /\ [][Next]_vars

\* The batches and, between them, the recalculation of a player's statistics.
NextStats == Next \/ Recalculate

SpecStats == Init /\ [][NextStats]_vars

\* ------------------------------------------------------ reset_db (app.py)
\* The removal run by a thread of its own, whatever the event loop is doing.
RemoveDatabase_anytime ==
    /\ pc # "removed"
    /\ pc' = "removed"
    /\ store' = EmptyTables
    /\ session' = EmptyTables
    /\ window' = 0
    /\ markers' = <<>>
    /\ UNCHANGED << files, game_number, game_id, line, hand, round_entry,
                    game_started, hand_started, round_number, outcome,
                    lines_read, files_opened, refusals >>

\* GET /reset_db, lines 288-296: the session closed, the engine disposed and
\* the database file removed.  The handler is a coroutine: the event loop
\* starts it when no other handler is running, and it has no await.
RemoveDatabase ==
    /\ pc = "idle"
    /\ pc' = "removed"
    /\ store' = EmptyTables
    /\ session' = EmptyTables
    /\ window' = 0
    /\ markers' = <<>>
    /\ UNCHANGED << files, game_number, game_id, line, hand, round_entry,
                    game_started, hand_started, round_number, outcome,
                    lines_read, files_opened, refusals >>

\* Lines 297-299: create_all, then parse_files("data") lists the directory.
CreateDatabase ==
    /\ pc = "removed"
    /\ \E n \in 0..(MaxFiles - files_opened) : files' = n
    /\ pc' = "files"
    /\ UNCHANGED << store, session, game_number, game_id, line, hand, round_entry,
                    game_started, hand_started, round_number, outcome, lines_read,
                    files_opened, refusals, window, markers >>

\* The application: the startup parse and the /uploadfile parse (ParseFiles),
\* the recalculation of a player's statistics and the rebuild of /reset_db.
NextApp == NextStats \/ RemoveDatabase \/ CreateDatabase

SpecApp == Init /\ [][NextApp]_vars

\* ------------------------------------------------------------- properties
\* The Rounds of Hand h, and the Rounds among the first r that belong to the
\* Hand of Round r.
RoundsOfHand(tables, h) ==
    { r \in 1..Len(tables.rounds) : tables.rounds[r].hand_id = h }

RankInHand(tables, r) ==
    Cardinality({ q \in 1..r : tables.rounds[q].hand_id = tables.rounds[r].hand_id })

\* The step reads a line of the file.
LineStep == lines_read' = lines_read + 1

\* The branch of parse_lines that took the line just read.
TakenBy(kind) ==
    /\ LineStep
    /\ game_started'
    /\ BranchOf[line'][hand_started \/ line' \in StartMarkers] = kind

\* C1: every Hand's Rounds are numbered 1, 2, 3, ... in creation order, the
\* first Round of every Hand being number 1, whatever preceded its hand-start
\* marker.
C1_RoundsNumberedFromOne ==
    \A r \in 1..Len(store.rounds) :
        store.rounds[r].round_number = RankInHand(store, r)

\* C2: every Hand has 1 + n Rounds, n the number of round-over markers read
\* after its hand-start marker and before the next hand-start marker, hand-end
\* marker or end of file.
C2_RoundsPerHand ==
    /\ Len(markers) = Len(store.hands)
    /\ \A h \in 1..Len(store.hands) :
         Cardinality(RoundsOfHand(store, h)) = 1 + markers[h]

\* A Hand with a round-over marker in its window, closed by the hand-start
\* marker of the next Hand.
C2_Witness ==
    \E h \in 1..Len(store.hands) :
        /\ markers[h] >= 1
        /\ h < Len(store.hands)
        /\ Cardinality(RoundsOfHand(store, h)) = 2

\* C3: parse_files never returns with a file of the directory not attempted.
C3_EveryFileAttempted == pc = "idle" => files = 0

\* C4: a line whose handling raises leaves the current hand, the current round
\* and the round counter as they were before it.
C4_FailingLineKeepsPosition ==
    [][(LineStep /\ outcome' = "error")
         => /\ hand' = hand
            /\ round_entry' = round_entry
            /\ round_number' = round_number]_vars

\* C5: PlayerActions, BoardCards and the counters of the Players become
\* durable only at a hand-start marker, at a hand-end marker or at the end of
\* the file: no other line changes them in the store.
C5_HandIsUnitOfAtomicity ==
    [][(LineStep /\ ~TakenBy("start") /\ ~TakenBy("end"))
         => /\ store'.player_actions = store.player_actions
            /\ store'.board_cards = store.board_cards
            /\ \A p \in 1..Len(store.players) :
                 store'.players[p] = store.players[p]]_vars

\* The field extraction of the line fails: extract_amount gives None on an
\* action line, no keyword gives a player name, or the Seat line is malformed.
ExtractionFails(text) ==
    \/ /\ BranchOf[text][TRUE] = "action"
       /\ \/ extract_amount(text) = None
          \/ extract_player_name_and_action(text, action_keywords).player_name = <<>>
    \/ /\ BranchOf[text][TRUE] = "seat"
       /\ ~SeatFields(text).ok

\* C6: a line whose field extraction fails creates no PlayerAction and no
\* Player and changes no counter.
C6_FailedExtractionSkipsLine ==
    [][(LineStep /\ ExtractionFails(line'))
         => /\ session'.player_actions = session.player_actions
            /\ session'.players = session.players]_vars

\* C7: a dealing line that is handled creates one BoardCard per card code of
\* its bracket.
C7_OneBoardCardPerCode ==
    [][(TakenBy("dealing") /\ outcome' = "ok")
         => Len(session'.board_cards) =
              Len(session.board_cards) + Len(Split(DealtCard(line'), <<SP>>))]_vars

PreFlopActionsOf(tables, p, kinds) ==
    { a \in ActionsOf(tables, p, kinds) :
        tables.rounds[tables.player_actions[a].round_id].round_name = <<"Pre-Flop">> }

\* C9: in the store, every Player's pfr_count is the number of its raises and
\* re-raises in Rounds named Pre-Flop, and its uopfr_count the number of its
\* raises in Rounds named Pre-Flop.
C9_PreFlopCounters ==
    \A p \in 1..Len(store.players) :
        /\ store.players[p].pfr_count =
             Cardinality(PreFlopActionsOf(store, p,
                 { <<"raises">>, <<"re-", "raises">> }))
        /\ store.players[p].uopfr_count =
             Cardinality(PreFlopActionsOf(store, p, { <<"raises">> }))

\* A Player whose raise in a later Round is in the store and is not counted.
C9_Witness ==
    \E p \in 1..Len(store.players) :
        /\ ActionsOf(store, p, { <<"raises">> }) # {}
        /\ PreFlopActionsOf(store, p, { <<"raises">> }) = {}
        /\ store.players[p].pfr_count = 0

\* C10: recalculate_stats leaves vpip_count, pfr_count and uopfr_count of
\* every Player as the parser left them.
C10_RecalculationKeepsCounters ==
    [][(pc = "idle" /\ pc' = "idle")
         => \A p \in 1..Len(store.players) :
              /\ store'.players[p].vpip_count = store.players[p].vpip_count
              /\ store'.players[p].pfr_count = store.players[p].pfr_count
              /\ store'.players[p].uopfr_count = store.players[p].uopfr_count]_vars

\* C11: recalculate_stats is idempotent: called again on a Player with no
\* PlayerAction added in between, it leaves every derived field as the first
\* call left it.
C11_RecalculationIdempotent ==
    pc = "idle" =>
        \A id \in 1..Len(store.players) :
            recalculate_stats(recalculate_stats(store, id), id).players[id]
                = recalculate_stats(store, id).players[id]

\* A Player with an action whose statistics have been recalculated.
C11_Witness ==
    /\ pc = "idle"
    /\ \E id \in 1..Len(store.players) :
         /\ store.players[id].total_hands_played >= 1
         /\ store.players[id] = recalculate_stats(store, id).players[id]

\* C12: every Player's final_chip_count is chips_start + total_chips_won -
\* total_chips_lost, in every state of the store.
C12_FinalChipCount ==
    \A p \in 1..Len(store.players) :
        store.players[p].final_chip_count =
            Some(store.players[p].chips_start + store.players[p].total_chips_won
                   - store.players[p].total_chips_lost)

\* C13: no two Games have the same game_number.
C13_GameNumbersUnique ==
    \A g, h \in 1..Len(store.games) :
        store.games[g].game_number = store.games[h].game_number => g = h

\* A second file of a Game is being parsed: a first one was parsed to its end,
\* and the second has added a Hand to the same Game.
C13_Witness ==
    /\ pc = "lines"
    /\ Len(store.games) = 1
    /\ store.games[1].num_players # None
    /\ Len(store.hands) = 2
    /\ lines_read = 2
    /\ hand = 2

\* The name a shows line gives: the text before "shows".
ShownName(text) == Strip(Split(text, <<"shows">>)[1])

\* C14: a shows line read while a hand is open adds one PlayerAction of kind
\* shows with amount 0 for a Player of that name that exists, and adds no
\* PlayerAction and no Player when none exists.
C14_ShowsLine ==
    [][TakenBy("shows")
         => /\ session'.players = session.players
            /\ session'.player_actions =
                 IF PlayerByName(session, ShownName(line')) # 0
                 THEN Append(session.player_actions,
                             NewPlayerAction(round_entry,
                                 PlayerByName(session, ShownName(line')),
                                 <<"shows">>, Some(0)))
                 ELSE session.player_actions]_vars

\* A shows line of a known Player has been read and its action added.
C14_Witness ==
    /\ line \in { L_showsA, L_showsB }
    /\ outcome = "ok"
    /\ Len(session.player_actions) >= 1
    /\ session.player_actions[Len(session.player_actions)].action = <<"shows">>

\* The last row of a table.
Last(rows) == rows[Len(rows)]

\* The last line read was a well-formed Seat line that created its Player, who
\* has no counted action yet.
SeatedNewPlayer ==
    /\ pc = "lines"
    /\ line \in Lines
    /\ BranchOf[line][TRUE] = "seat"
    /\ outcome = "ok"
    /\ Len(session.players) >= 1
    /\ Last(session.players).name = SeatFields(line).player
    /\ Last(session.players).vpip_count = 0
    /\ Last(session.players).pfr_count = 0
    /\ Last(session.players).uopfr_count = 0

\* C15: a Seat line 'Seat n: P (c chips)' read while a hand is open, P not
\* known, creates the Player P with seat_number n and chips_start c and one
\* PlayerAction of kind seat with amount c on the current Round; a line
\* 'P raises [a chips]' that follows it in the Pre-Flop round adds one raises
\* action with amount a and leaves P with vpip_count = pfr_count =
\* uopfr_count = 1.
C15_SeatThenRaise ==
    [][/\ (/\ TakenBy("seat")
           /\ SeatFields(line').ok
           /\ PlayerByName(session, SeatFields(line').player) = 0)
          => /\ session'.players =
                  Append(session.players,
                         NewPlayer(SeatFields(line').player, game_id,
                                   SeatFields(line').seat, SeatFields(line').chips))
             /\ session'.player_actions =
                  Append(session.player_actions,
                         NewPlayerAction(round_entry, Len(session'.players),
                                         <<"seat">>, Some(SeatFields(line').chips)))
       /\ (/\ SeatedNewPlayer
           /\ TakenBy("action")
           /\ line' = Last(session.players).name \o <<SP>> \o
                        <<"raises", SP, "[", "50", SP, "chips", "]">>
           /\ session.rounds[round_entry].round_name = <<"Pre-Flop">>)
          => /\ session'.player_actions =
                  Append(session.player_actions,
                         NewPlayerAction(round_entry, Len(session.players),
                                         <<"raises">>, Some(50)))
             /\ Last(session'.players).vpip_count = 1
             /\ Last(session'.players).pfr_count = 1
             /\ Last(session'.players).uopfr_count = 1]_vars

\* Alice was seated and has raised before the flop.
C15_Witness ==
    /\ line = L_raises
    /\ Len(session.players) = 1
    /\ session.players[1].seat_number = 1
    /\ session.players[1].chips_start = 1000
    /\ session.players[1].uopfr_count = 1
    /\ Len(session.player_actions) = 2
    /\ session.player_actions[1].action = <<"seat">>
    /\ session.player_actions[2].amount = Some(50)

\* C16: a line read while no hand is open (before the first hand-start marker
\* of the file, or after a hand-end marker and before the next hand-start
\* marker) creates and modifies no row.
C16_NoHandNoChange ==
    [][(LineStep /\ window = 0 /\ line' \notin StartMarkers)
         => /\ store' = store
            /\ session' = session]_vars

\* An action line has been read after the hand-end marker of a Hand.
C16_Witness ==
    /\ pc = "lines"
    /\ window = 0
    /\ Len(store.hands) >= 1
    /\ hand = 0
    /\ line \in Lines
    /\ BranchOf[line][TRUE] \in { "action", "seat" }

\* C17: when the lines of a file are exhausted, every PlayerAction, BoardCard
\* and counter update pending in the session is committed, a hand being open
\* or not, and nothing is left pending.
C17_EndOfFileCommits ==
    [][(pc = "lines" /\ pc' = "files")
         => /\ store'.player_actions = session.player_actions
            /\ store'.board_cards = session.board_cards
            /\ store'.players = session.players
            /\ store'.hands = session.hands
            /\ store'.rounds = session.rounds
            /\ session' = store']_vars

\* The file ended with a hand open, right after an action line whose
\* PlayerAction was pending.
C17_Witness ==
    /\ pc = "files"
    /\ hand # 0
    /\ line \in Lines
    /\ BranchOf[line][TRUE] = "action"
    /\ outcome = "ok"
    /\ Len(store.player_actions) >= 1

\* C18: in the store, every Round's hand_id is the id of a Hand, and every
\* PlayerAction's round_id and player_id are the ids of a Round and of a Player.
C18_ReferencesExist ==
    /\ \A r \in 1..Len(store.rounds) :
         store.rounds[r].hand_id \in 1..Len(store.hands)
    /\ \A a \in 1..Len(store.player_actions) :
         /\ store.player_actions[a].round_id \in 1..Len(store.rounds)
         /\ store.player_actions[a].player_id \in 1..Len(store.players)

\* A PlayerAction of the second Round of a Hand is in the store.
C18_Witness ==
    /\ Len(store.player_actions) >= 1
    /\ store.player_actions[1].round_id = 2
    /\ store.rounds[2].hand_id = 1

\* s is an initial part of t.
IsPrefix(s, t) == Len(s) <= Len(t) /\ \A i \in 1..Len(s) : s[i] = t[i]

\* C19: line order is preserved.  The rows a line adds get ids above those of
\* every row an earlier line added, in the session and in the store: a step
\* keeps the stored Hands, Rounds and PlayerActions as the first rows of the
\* table, and a line either adds its rows after those of the session or (on a
\* rollback) leaves the stored rows only.
C19_OrderPreserved ==
    [][/\ IsPrefix(store.hands, store'.hands)
       /\ IsPrefix(store.rounds, store'.rounds)
       /\ IsPrefix(store.player_actions, store'.player_actions)
       /\ IsPrefix(store'.hands, session'.hands)
       /\ IsPrefix(store'.rounds, session'.rounds)
       /\ IsPrefix(store'.player_actions, session'.player_actions)
       /\ LineStep
            => /\ \/ IsPrefix(session.player_actions, session'.player_actions)
                  \/ session'.player_actions = store.player_actions
               /\ IsPrefix(session.hands, session'.hands)
               /\ IsPrefix(session.rounds, session'.rounds)]_vars

\* Two lines of a file have their PlayerActions in the store, in their order.
C19_Witness ==
    /\ Len(store.player_actions) = 2
    /\ store.player_actions[1].action = <<"seat">>
    /\ store.player_actions[2].action = <<"raises">>

KeywordPlaces(text) ==
    { p \in 2..Len(text) :
        /\ text[p - 1] = SP
        /\ \E k \in 1..Len(action_keywords) : MatchAt(text, action_keywords[k], p) }

NameThenKeyword(text) ==
    IF KeywordPlaces(text) = {}
    THEN [player_name |-> <<>>, action |-> <<>>]
    ELSE LET p == CHOOSE p \in KeywordPlaces(text) :
                      \A q \in KeywordPlaces(text) : p <= q
             k == CHOOSE k \in 1..Len(action_keywords) :
                      MatchAt(text, action_keywords[k], p)
         IN  [player_name |-> Strip(SubSeq(text, 1, p - 1)),
              action |-> action_keywords[k]]

\* C21: an action line '<name> <keyword> ...' is recorded with the keyword
\* that follows the name as its kind and the whole trimmed name as its player,
\* also when the name contains another keyword, and vpip_count grows only for
\* calls, raises and re-raises.
C21_KeywordAfterName ==
    [][(TakenBy("action") /\ NameThenKeyword(line').player_name # <<>>)
         => LET read == NameThenKeyword(line')
                was  == PlayerByName(session, read.player_name)
                now  == PlayerByName(session', read.player_name)
            IN  /\ Len(session'.player_actions) = Len(session.player_actions) + 1
                /\ Last(session'.player_actions).action = read.action
                /\ now # 0
                /\ Last(session'.player_actions).player_id = now
                /\ session'.players[now].vpip_count =
                     (IF was # 0 THEN session.players[was].vpip_count ELSE 0)
                       + (IF IsVpip(read.action) THEN 1 ELSE 0)]_vars

\* C22: a player-leaves line creates, modifies and discards no row, pending
\* ones included, and leaves the current hand, the current round and the
\* round counter as they are.
C22_LeavesLineInformational ==
    [][TakenBy("leaves")
         => /\ store' = store
            /\ session' = session
            /\ hand' = hand
            /\ round_entry' = round_entry
            /\ round_number' = round_number]_vars

\* The Hand of the row that the step added last to a table whose rows carry a
\* round_id; 0 when the Round is none of the table.
HandOfRound(tables, r) ==
    IF r \in 1..Len(tables.rounds) THEN tables.rounds[r].hand_id ELSE 0

\* C24: every PlayerAction, BoardCard and Round a line adds belongs to the
\* Hand opened by the most recent hand-start marker; when that marker opened
\* no Hand, or not its first Round, no line adds one to an earlier Hand.
C24_RowsBelongToCurrentHand ==
    [][LineStep
         => /\ Len(session'.player_actions) > Len(session.player_actions)
                 => /\ window' # 0
                    /\ HandOfRound(session', Last(session'.player_actions).round_id)
                         = window'
            /\ Len(session'.board_cards) > Len(session.board_cards)
                 => /\ window' # 0
                    /\ HandOfRound(session', Last(session'.board_cards).round_id)
                         = window'
            /\ Len(session'.rounds) > Len(session.rounds)
                 => /\ window' # 0
                    /\ Last(session'.rounds).hand_id = window']_vars

\* C25: the PlayerAction or BoardCard of a line handled without error, and
\* the counter increments of the line, are not taken back by a later line of
\* the hand, and are in the store once the file has been processed.
C25_HandledLinesPersist ==
    [][/\ LineStep
            => /\ IsPrefix(session.player_actions, session'.player_actions)
               /\ IsPrefix(session.board_cards, session'.board_cards)
               /\ \A p \in 1..Len(session.players) :
                    /\ session'.players[p].vpip_count >= session.players[p].vpip_count
                    /\ session'.players[p].pfr_count >= session.players[p].pfr_count
                    /\ session'.players[p].uopfr_count
                         >= session.players[p].uopfr_count
       /\ (pc = "lines" /\ pc' = "files")
            => /\ store'.player_actions = session.player_actions
               /\ store'.board_cards = session.board_cards
               /\ store'.players = session.players]_vars

\* C26: a Seat line naming a Player that exists changes no Player, seat_number
\* and chips_start included, and adds a seat action of that Player with the
\* chip count of the line; no line changes the seat_number or the chips_start
\* of a Player.
C26_SeatLineOfKnownPlayer ==
    [][/\ (/\ TakenBy("seat")
           /\ SeatFields(line').ok
           /\ PlayerByName(session, SeatFields(line').player) # 0)
            => /\ session'.players = session.players
               /\ session'.player_actions =
                    Append(session.player_actions,
                           NewPlayerAction(round_entry,
                               PlayerByName(session, SeatFields(line').player),
                               <<"seat">>, Some(SeatFields(line').chips)))
       /\ LineStep
            => \A p \in 1..Len(session.players) :
                 /\ session'.players[p].seat_number = session.players[p].seat_number
                 /\ session'.players[p].chips_start = session.players[p].chips_start]_vars

\* A Player that an action line created, after a Seat line naming it: seat -1,
\* no chips, and the seat action with the 1000 chips of the line.
C26_Witness ==
    /\ line = L_seatA
    /\ pc = "lines"
    /\ Len(session.players) = 1
    /\ session.players[1].name = <<"Alice">>
    /\ session.players[1].seat_number = -1
    /\ session.players[1].chips_start = 0
    /\ Len(session.player_actions) = 2
    /\ session.player_actions[1].action # <<"seat">>
    /\ Last(session.player_actions) = NewPlayerAction(round_entry, 1, <<"seat">>, Some(1000))

\* Player.hands: the Hands of the Rounds of the player's actions
HandsOf(tables, id) ==
    { tables.rounds[tables.player_actions[a].round_id].hand_id :
        a \in PlayerActionsOf(tables, id) }

\* C27: recalculate_stats leaves in total_hands_played the number of distinct
\* Hands in which the player has a PlayerAction.
C27_HandsPlayedCountsHands ==
    [][(pc = "idle" /\ pc' = "idle")
         => \A p \in 1..Len(store.players) :
              store'.players[p] # store.players[p]
                => store'.players[p].total_hands_played
                     = Cardinality(HandsOf(store', p))]_vars

\* A handler other than a batch acts on the store: the recalculation endpoint
\* reads the player's rows and writes its counters.
HandlerStep ==
    /\ store' # store
    /\ pc' = pc
    /\ lines_read' = lines_read

====
